---- MODULE Spec2Model ----
(***************************************************************************)
(* A model of packages/bignumber/src.ts/bignumber.ts: the BigNumber value  *)
(* type, its construction dispatcher BigNumber.from, the hex normaliser    *)
(* toHex, the decoder toBN and the arithmetic / comparison wrappers.       *)
(*                                                                         *)
(* JavaScript strings are sequences of one-character strings.  The BN.js   *)
(* engine is modelled as exact arbitrary-precision arithmetic on a sign    *)
(* and a big-endian sequence of base-16 digits, so that values around      *)
(* 2^53 are represented exactly.                                           *)
(***************************************************************************)
EXTENDS Integers, Sequences, FiniteSets, TLC

VARIABLES x, y, pc, res, res0, engine

vars == <<x, y, pc, res, res0, engine>>

(***************************************************************************)
(* Bounds of the model.                                                    *)
(***************************************************************************)
\* longest string drawn from Alphabet as an input of from / toHex / isBigNumberish
MaxLen == 5
\* longest string drawn from Alphabet as an operand of the binary operations
MaxArithLen == 3
\* longest byte sequence
MaxBytes == 2

Alphabet == {"-", "0", "1", "x", "a", "A"}

ByteValues == {0, 1, 255}

(***************************************************************************)
(* JavaScript string primitives.                                           *)
(***************************************************************************)
Min(a, b) == IF a < b THEN a ELSE b

\* String.prototype.substring(from, to), 0-based, clamped
Substring(s, from, to) ==
    LET t == Min(to, Len(s))
    IN IF from >= t THEN <<>> ELSE SubSeq(s, from + 1, t)

\* String.prototype.substring(from)
SubstringFrom(s, from) == Substring(s, from, Len(s))

\* s[i], 0-based; "" stands for undefined
CharAt(s, i) == IF i >= 0 /\ i < Len(s) THEN s[i + 1] ELSE ""

HexChars == <<"0", "1", "2", "3", "4", "5", "6", "7", "8", "9", "a", "b", "c", "d", "e", "f">>

UpperHexChars == <<"0", "1", "2", "3", "4", "5", "6", "7", "8", "9", "A", "B", "C", "D", "E", "F">>

DecChars == {HexChars[i] : i \in 1..10}

\* [0-9a-f] under the i flag
IsHexCharCI(c) == \E i \in 1..16 : HexChars[i] = c \/ UpperHexChars[i] = c

\* [0-9]
IsDecChar(c) == c \in DecChars

\* the value of a digit character (BN.js reads both cases)
DigitVal(c) == (CHOOSE i \in 1..16 : HexChars[i] = c \/ UpperHexChars[i] = c) - 1

\* value.match(/-?0x[0-9a-f]+/i): not anchored, so it succeeds as soon as
\* "0x" followed by one hex digit occurs anywhere in the string
MatchHexUnanchored(s) ==
    \E i \in 1..Len(s) :
        /\ i + 2 <= Len(s)
        /\ s[i] = "0"
        /\ s[i + 1] \in {"x", "X"}
        /\ IsHexCharCI(s[i + 2])

\* value.match(/^-?[0-9]+$/)
MatchDecimal(s) ==
    LET d == IF CharAt(s, 0) = "-" THEN SubstringFrom(s, 1) ELSE s
    IN Len(d) >= 1 /\ \A i \in 1..Len(d) : IsDecChar(d[i])

(***************************************************************************)
(* Outcomes of a call: a returned instance, a thrown error, a boolean, a   *)
(* string.                                                                 *)
(***************************************************************************)
Outcome(k, s, code, reason, operation, flag) ==
    [k |-> k, s |-> s, code |-> code, reason |-> reason, operation |-> operation, flag |-> flag]

None == Outcome("none", <<>>, "", "", "", FALSE)

\* new BigNumber(_constructorGuard, hex): the instance holds the hex string only
NewBigNumber(hex) == Outcome("ok", hex, "", "", "", FALSE)

\* errors.throwArgumentError(message, name, value)
throwArgumentError(message) == Outcome("throw", <<>>, "INVALID_ARGUMENT", message, "", FALSE)

\* throwFault(fault, operation, value)
throwFault(fault, operation) == Outcome("throw", <<>>, "NUMERIC_FAULT", fault, operation, FALSE)

Bool(b) == Outcome("bool", <<>>, "", "", "", b)

Text(s) == Outcome("text", s, "", "", "", FALSE)

\* the engine was handed a string that is no numeral of the radix
Unspecified == Outcome("unspecified", <<>>, "", "", "", FALSE)

(***************************************************************************)
(* The engine (BN.js): magnitudes are big-endian digit sequences without   *)
(* leading zeros, the empty sequence is zero.                              *)
(***************************************************************************)
\* digit sequences; the functions below take their arguments by value
Digits == Seq(Nat)

Front(m) == SubSeq(m, 1, Len(m) - 1)

Last(m) == m[Len(m)]

MagNorm[m \in Digits] == IF m # <<>> /\ Head(m) = 0 THEN MagNorm[Tail(m)] ELSE m

\* m * k + carry in the given base
MulAdd[m \in Digits, k \in Nat, carry \in Nat, base \in Nat] ==
    IF m = <<>>
    THEN IF carry = 0 THEN <<>> ELSE Append(MulAdd[<<>>, k, carry \div base, base], carry % base)
    ELSE Append(MulAdd[Front(m), k, (Last(m) * k + carry) \div base, base],
                (Last(m) * k + carry) % base)

\* digits of radix fromBase rewritten in radix toBase
Convert[m \in Digits, fromBase \in Nat, toBase \in Nat] ==
    IF m = <<>> THEN <<>>
    ELSE MagNorm[MulAdd[Convert[Front(m), fromBase, toBase], fromBase, Last(m), toBase]]

\* -1, 0, 1 for sequences of one length
MagCmpLex[a \in Digits, b \in Digits] ==
    IF a = <<>> THEN 0
    ELSE IF Head(a) < Head(b) THEN -1
    ELSE IF Head(a) > Head(b) THEN 1
    ELSE MagCmpLex[Tail(a), Tail(b)]

MagCmp[a \in Digits, b \in Digits] ==
    IF Len(a) < Len(b) THEN -1
    ELSE IF Len(a) > Len(b) THEN 1
    ELSE MagCmpLex[a, b]

\* the last digit, 0 for the empty sequence
LastOr0(m) == IF m = <<>> THEN 0 ELSE Last(m)

FrontOrEmpty(m) == IF m = <<>> THEN m ELSE Front(m)

MagAddC[a \in Digits, b \in Digits, carry \in Nat] ==
    IF a = <<>> /\ b = <<>>
    THEN IF carry = 0 THEN <<>> ELSE <<carry>>
    ELSE Append(MagAddC[FrontOrEmpty(a), FrontOrEmpty(b), (LastOr0(a) + LastOr0(b) + carry) \div 16],
                (LastOr0(a) + LastOr0(b) + carry) % 16)

MagAdd[a \in Digits, b \in Digits] == MagNorm[MagAddC[a, b, 0]]

\* a - b for a >= b
MagSubB[a \in Digits, b \in Digits, borrow \in Nat] ==
    IF a = <<>> THEN <<>>
    ELSE Append(MagSubB[Front(a), FrontOrEmpty(b), IF Last(a) - LastOr0(b) - borrow < 0 THEN 1 ELSE 0],
                (Last(a) - LastOr0(b) - borrow + 16) % 16)

MagSub[a \in Digits, b \in Digits] == MagNorm[MagSubB[a, b, 0]]

MagMul[a \in Digits, b \in Digits] ==
    IF b = <<>> THEN <<>>
    ELSE MagAdd[MagNorm[MulAdd[MagMul[a, Front(b)], 16, 0, 16]],
                MagNorm[MulAdd[a, Last(b), 0, 16]]]

\* the largest q in 0..15 with b * q <= r
QuotDigit[r \in Digits, b \in Digits, q \in Nat] ==
    IF q > 0 /\ MagCmp[MagNorm[MulAdd[b, q, 0, 16]], r] > 0 THEN QuotDigit[r, b, q - 1] ELSE q

\* one step of the schoolbook division: p is <<quotient, remainder>> so far
\* and r the remainder with the next digit brought down
DivStep[p \in Seq(Digits), r \in Digits, b \in Digits] ==
    <<MagNorm[Append(p[1], QuotDigit[r, b, 15])],
      MagSub[r, MagNorm[MulAdd[b, QuotDigit[r, b, 15], 0, 16]]]>>

DivBring[p \in Seq(Digits), d \in Nat, b \in Digits] == DivStep[p, MagNorm[Append(p[2], d)], b]

\* schoolbook division, b # 0: <<quotient, remainder>>
MagDivMod[a \in Digits, b \in Digits] ==
    IF a = <<>> THEN <<<<>>, <<>>>>
    ELSE DivBring[MagDivMod[Front(a), b], Last(a), b]

\* the BN values
BNs == [valid : BOOLEAN, neg : BOOLEAN, mag : Digits]

\* a BN: sign and magnitude; zero is never negative (BN.js strip / _normSign)
MkBN[neg \in BOOLEAN, mag \in Digits] == [valid |-> TRUE, neg |-> neg /\ mag # <<>>, mag |-> mag]

BNInvalid == [valid |-> FALSE, neg |-> FALSE, mag |-> <<>>]

\* the digits of a numeral of the radix, without the sign
BNParseDigits[neg \in BOOLEAN, d \in Seq(STRING), base \in Nat] ==
    IF \E i \in 1..Len(d) : ~(IF base = 16 THEN IsHexCharCI(d[i]) ELSE IsDecChar(d[i]))
    THEN BNInvalid
    ELSE MkBN[neg, Convert[[i \in 1..Len(d) |-> DigitVal(d[i])], base, 16]]

\* new BN(s, base) for base 10 or 16
BNParse(s, base) ==
    BNParseDigits[CharAt(s, 0) = "-", IF CharAt(s, 0) = "-" THEN SubstringFrom(s, 1) ELSE s, base]

BNRender[neg \in BOOLEAN, m \in Digits] ==
    (IF neg THEN <<"-">> ELSE <<>>)
    \o (IF m = <<>> THEN <<"0">> ELSE [i \in 1..Len(m) |-> HexChars[m[i] + 1]])

\* bn.toString(base) for base 10 or 16
BNToString(bn, base) == BNRender[bn.neg, Convert[bn.mag, 16, base]]

BNisZero(bn) == bn.mag = <<>>

BNneg[bn \in BNs] == MkBN[~bn.neg, bn.mag]

BNadd[a \in BNs, b \in BNs] ==
    IF a.neg = b.neg THEN MkBN[a.neg, MagAdd[a.mag, b.mag]]
    ELSE IF MagCmp[a.mag, b.mag] >= 0 THEN MkBN[a.neg, MagSub[a.mag, b.mag]]
    ELSE MkBN[b.neg, MagSub[b.mag, a.mag]]

BNsub[a \in BNs, b \in BNs] == BNadd[a, BNneg[b]]

BNmul[a \in BNs, b \in BNs] == MkBN[a.neg # b.neg, MagMul[a.mag, b.mag]]

\* truncating division, b # 0
BNdiv[a \in BNs, b \in BNs] == MkBN[a.neg # b.neg, MagDivMod[a.mag, b.mag][1]]

BNeq[a \in BNs, b \in BNs] == a.neg = b.neg /\ a.mag = b.mag

(***************************************************************************)
(* JavaScript values handed to the library.  t is the shape; s holds the   *)
(* characters of a string, the _hex of an instance or of an object, the    *)
(* string an object's toHexString() returns, or the decimal digits of the  *)
(* integer part of a number; b holds the bytes of a byte sequence.         *)
(***************************************************************************)
Value(t, s, b, neg, q) == [t |-> t, s |-> s, b |-> b, neg |-> neg, q |-> q]

Str(s) == Value("str", s, <<>>, FALSE, "")

\* an instance of BigNumber holding _hex
Inst(hex) == Value("bn", hex, <<>>, FALSE, "")

\* q: "int", "frac" (integer part s, fraction one half), "nan", "inf"
Num(neg, s, q) == Value("num", s, <<>>, neg, q)

BigInt(neg, s) == Value("bigint", s, <<>>, neg, "")

Bytes(b) == Value("bytes", <<>>, b, FALSE, "")

\* q: "plain" ({ }), "_hex" ({ _hex: s }), "toHexString" (returns the string s),
\*    "toHexStringOther" (returns something that is no string)
Obj(q, s) == Value("obj", s, <<>>, FALSE, q)

NoValue == Value("none", <<>>, <<>>, FALSE, "")

\* const MAX_SAFE = 0x1fffffffffffff: the digits of the literal
MAX_SAFE == <<"1", "f", "f", "f", "f", "f", "f", "f", "f", "f", "f", "f", "f", "f">>

MaxSafeMag == BNParse(MAX_SAFE, 16).mag

NumMag(v) == BNParse(v.s, 10).mag

\* value % 1 is truthy: a finite number with a fractional part
\* (NaN % 1 and Infinity % 1 are NaN, which is falsy)
NumModOneTruthy(v) == v.q = "frac"

\* (value % 1) === 0
NumModOneIsZero(v) == v.q = "int"

\* value >= MAX_SAFE
NumGeMaxSafe(v) ==
    /\ v.q # "nan"
    /\ ~v.neg
    /\ (v.q = "inf" \/ MagCmp[NumMag(v), MaxSafeMag] >= 0)

\* value <= -MAX_SAFE
NumLeMinusMaxSafe(v) ==
    /\ v.q # "nan"
    /\ v.neg
    /\ (v.q = "inf" \/ MagCmp[NumMag(v), MaxSafeMag] >= 0)

\* String(value) for a number without a fractional part
JsNumberToString(v) ==
    IF v.q = "nan" THEN <<"N", "a", "N">>
    ELSE IF v.q = "inf"
    THEN (IF v.neg THEN <<"-">> ELSE <<>>) \o <<"I", "n", "f", "i", "n", "i", "t", "y">>
    ELSE BNToString(MkBN[v.neg, NumMag(v)], 10)

\* value.toString() for a bigint
JsBigIntToString(v) == BNToString(MkBN[v.neg, NumMag(v)], 10)

\* isHexString(value) of @ethersproject/bytes: /^0x[0-9A-Fa-f]*$/
isHexString(s) ==
    /\ Substring(s, 0, 2) = <<"0", "x">>
    /\ \A i \in 3..Len(s) : IsHexCharCI(s[i])

\* hexlify(value) of @ethersproject/bytes for a byte sequence
hexlifyBytes[b \in Seq(Nat)] ==
    IF b = <<>> THEN <<"0", "x">>
    ELSE hexlifyBytes[Front(b)] \o <<HexChars[(Last(b) \div 16) + 1], HexChars[(Last(b) % 16) + 1]>>

hexlify(b) == hexlifyBytes[b]

(***************************************************************************)
(* toHex: "Normalize the hex string".                                      *)
(***************************************************************************)
Ox == <<"0", "x">>

\* JavaScript evaluates an expression once and passes its value: The({F(v) :
\* v \in {e}}) is F of the value of e, with e computed once
The(S) == CHOOSE e \in S : TRUE

\* toHexTrim with the loop run at most once (an if for the while)
toHexTrim_once(value) ==
    IF Len(value) > 4 /\ Substring(value, 0, 4) = <<"0", "x", "0", "0">>
    THEN Ox \o SubstringFrom(value, 4)
    ELSE value

\* while (value.length > 4 && value.substring(0, 4) === "0x00")
RECURSIVE toHexTrim(_)
toHexTrim(value) ==
    IF Len(value) > 4 /\ Substring(value, 0, 4) = <<"0", "x", "0", "0">>
    THEN The({toHexTrim(v) : v \in {Ox \o SubstringFrom(value, 4)}})
    ELSE value

\* if (value.substring(0, 2) !== "0x") { value = "0x" + value; }
toHexPrefix(value) == IF Substring(value, 0, 2) # Ox THEN Ox \o value ELSE value

\* if (value.length % 2) { value = "0x0" + value.substring(2); }
toHexPad(value) ==
    IF Len(value) % 2 = 1 THEN <<"0", "x", "0">> \o SubstringFrom(value, 2) ELSE value

\* toHexUnsigned without the step that makes the string even length
toHexUnsigned_noPad(value) ==
    The({IF v1 = Ox THEN <<"0", "x", "0", "0">> ELSE toHexTrim(v1) : v1 \in {toHexPrefix(value)}})

\* the part of toHex after the sign has been dealt with
toHexUnsigned(value) ==
    The({IF v1 = Ox THEN <<"0", "x", "0", "0">>
         ELSE The({toHexTrim(v2) : v2 \in {toHexPad(v1)}}) : v1 \in {toHexPrefix(value)}})

\* the end of the negative branch of toHex, n being toHex of the rest
toHexNegate(n) ==
    IF n.k = "throw" THEN n
    ELSE IF n.s = <<"0", "x", "0", "0">> THEN n
    ELSE Text(<<"-">> \o n.s)

\* toHex(value: string)
RECURSIVE toHex(_)
toHex(value) ==
    IF CharAt(value, 0) = "-"
    THEN IF CharAt(value, 1) = "-"
         THEN throwArgumentError("invalid hex")
         ELSE The({toHexNegate(n) : n \in {The({toHex(v) : v \in {SubstringFrom(value, 1)}})}})
    ELSE Text(toHexUnsigned(value))

\* toHex(value: BN): "For BN, call on the hex string"
toHexBN(bn) == The({toHex(s) : s \in {BNToString(bn, 16)}})

(***************************************************************************)
(* BigNumber.from                                                          *)
(***************************************************************************)
\* new BigNumber(_constructorGuard, h) unless toHex threw
Construct(h) == IF h.k = "throw" THEN h ELSE NewBigNumber(h.s)

\* the typeof(value) === "string" branch
fromString(value) ==
    IF MatchHexUnanchored(value)
    THEN The({Construct(h) : h \in {toHex(value)}})
    ELSE IF MatchDecimal(value)
    THEN The({Construct(h) : h \in {The({toHexBN(bn) : bn \in {BNParse(value, 10)}})}})
    ELSE throwArgumentError("invalid BigNumber string")

\* value > MAX_SAFE
NumGtMaxSafe(v) ==
    /\ v.q # "nan"
    /\ ~v.neg
    /\ (v.q = "inf" \/ MagCmp[NumMag(v), MaxSafeMag] > 0)

\* value < -MAX_SAFE
NumLtMinusMaxSafe(v) ==
    /\ v.q # "nan"
    /\ v.neg
    /\ (v.q = "inf" \/ MagCmp[NumMag(v), MaxSafeMag] > 0)

\* fromNumber with the bounds compared strictly (> for >=, < for <=)
fromNumber_strict(value) ==
    IF NumModOneTruthy(value) THEN throwFault("underflow", "BigNumber.from")
    ELSE IF NumGtMaxSafe(value) \/ NumLtMinusMaxSafe(value)
    THEN throwFault("overflow", "BigNumber.from")
    ELSE The({fromString(s) : s \in {JsNumberToString(value)}})

\* the typeof(value) === "number" branch
fromNumber(value) ==
    IF NumModOneTruthy(value) THEN throwFault("underflow", "BigNumber.from")
    ELSE IF NumGeMaxSafe(value) \/ NumLeMinusMaxSafe(value)
    THEN throwFault("overflow", "BigNumber.from")
    ELSE The({fromString(s) : s \in {JsNumberToString(value)}})

from(value) ==
    IF value.t = "bn" THEN NewBigNumber(value.s)
    ELSE IF value.t = "str" THEN The({fromString(s) : s \in {value.s}})
    ELSE IF value.t = "num" THEN fromNumber(value)
    ELSE IF value.t = "bigint" THEN The({fromString(s) : s \in {JsBigIntToString(value)}})
    ELSE IF value.t = "bytes" THEN The({fromString(s) : s \in {hexlify(value.b)}})
    ELSE IF value.t = "obj" /\ value.q = "_hex" /\ value.s # <<>> /\ isHexString(value.s)
    THEN The({fromString(s) : s \in {value.s}})
    ELSE IF value.t = "obj" /\ value.q = "toHexString"
    THEN The({fromString(s) : s \in {value.s}})
    ELSE throwArgumentError("invalid BigNumber value")

\* isBigNumberish(value)
isBigNumberish(value) ==
    \/ value.t = "bn"
    \/ value.t = "num" /\ NumModOneIsZero(value)
    \/ value.t = "str" /\ MatchDecimal(value.s)
    \/ value.t = "str" /\ isHexString(value.s)
    \/ value.t = "bigint"
    \/ value.t = "bytes"

(***************************************************************************)
(* toBN, toBigNumber and the methods                                       *)
(***************************************************************************)
\* what toBN returns: [thrown |-> what from threw (or None), bn |-> the decoded BN]
Decoded(thrown, bn) == [thrown |-> thrown, bn |-> bn]

\* toBN without the branch for a negative hex: the sign is skipped, not kept
toBNofHex_dropsSign(hex) ==
    IF CharAt(hex, 0) = "-"
    THEN Decoded(None, The({BNParse(s, 16) : s \in {SubstringFrom(hex, 3)}}))
    ELSE Decoded(None, The({BNParse(s, 16) : s \in {SubstringFrom(hex, 2)}}))

\* toBN after let hex = BigNumber.from(value).toHexString()
toBNofHex(hex) ==
    IF CharAt(hex, 0) = "-"
    THEN Decoded(None, The({BNParse(s, 16) : s \in {<<"-">> \o SubstringFrom(hex, 3)}}))
    ELSE Decoded(None, The({BNParse(s, 16) : s \in {SubstringFrom(hex, 2)}}))

\* toBN(value)
toBN(value) ==
    The({IF r.k = "throw" THEN Decoded(r, BNInvalid)
         ELSE The({toBNofHex(hex) : hex \in {r.s}}) : r \in {from(value)}})

\* toBigNumber(value: BN)
toBigNumber(bn) ==
    The({IF h.k = "throw" THEN h ELSE The({fromString(s) : s \in {h.s}}) : h \in {toHexBN(bn)}})

\* the engine method of the given name
EngineOp(name, a, b) ==
    IF name = "add" THEN BNadd[a, b]
    ELSE IF name = "sub" THEN BNsub[a, b]
    ELSE IF name = "mul" THEN BNmul[a, b]
    ELSE BNdiv[a, b]

\* what a method did: its outcome and the engine methods it called
Done(out, calls) == [out |-> out, calls |-> calls]

\* toBigNumber(a.op(b)) for the decoded operands a and b
DelegateDecoded(a, b, name) ==
    IF a.thrown.k = "throw" THEN Done(a.thrown, <<>>)
    ELSE IF b.thrown.k = "throw" THEN Done(b.thrown, <<>>)
    ELSE IF ~a.bn.valid \/ ~b.bn.valid THEN Done(Unspecified, <<name>>)
    ELSE Done(The({toBigNumber(bn) : bn \in {EngineOp(name, a.bn, b.bn)}}), <<name>>)

\* toBigNumber(toBN(this).op(toBN(other)))
Delegate(this, other, name) ==
    The({The({DelegateDecoded(a, b, name) : b \in {toBN(other)}}) : a \in {toBN(this)}})

add(this, other) == Delegate(this, other, "add")

sub(this, other) == Delegate(this, other, "sub")

mul(this, other) == Delegate(this, other, "mul")

\* isZero(): toBN(this).isZero()
isZero(this) ==
    The({IF a.thrown.k = "throw" THEN a.thrown
         ELSE IF ~a.bn.valid THEN Unspecified
         ELSE Bool(BNisZero(a.bn)) : a \in {toBN(this)}})

\* div after o.isZero() returned z
divAfterTest(this, other, z) ==
    IF z.k # "bool" THEN Done(z, <<"isZero">>)
    ELSE IF z.flag THEN Done(throwFault("division by zero", "div"), <<"isZero">>)
    ELSE The({Done(d.out, <<"isZero">> \o d.calls) : d \in {Delegate(this, other, "div")}})

\* div with the zero test made on the receiver, not on the divisor
div_testsReceiver(this, other) ==
    The({IF o.k = "throw" THEN Done(o, <<>>)
         ELSE The({divAfterTest(this, other, z) : z \in {isZero(this)}}) : o \in {from(other)}})

div(this, other) ==
    The({IF o.k = "throw" THEN Done(o, <<>>)
         ELSE The({divAfterTest(this, other, z) : z \in {isZero(Inst(o.s))}}) : o \in {from(other)}})

\* a.eq(b) for the decoded operands a and b
eqDecoded(a, b) ==
    IF a.thrown.k = "throw" THEN a.thrown
    ELSE IF b.thrown.k = "throw" THEN b.thrown
    ELSE IF ~a.bn.valid \/ ~b.bn.valid THEN Unspecified
    ELSE Bool(BNeq[a.bn, b.bn])

\* eq(other): toBN(this).eq(toBN(other))
eq(this, other) ==
    The({The({eqDecoded(a, b) : b \in {toBN(other)}}) : a \in {toBN(this)}})

\* toString(): toBN(this).toString(10)
toString(this) ==
    The({IF a.thrown.k = "throw" THEN a.thrown
         ELSE IF ~a.bn.valid THEN Unspecified
         ELSE Text(BNToString(a.bn, 10)) : a \in {toBN(this)}})

\* toHexString()
toHexString(this) == this.s

(***************************************************************************)
(* The inputs.                                                             *)
(***************************************************************************)
StringsUpTo(n) == UNION {[1..k -> Alphabet] : k \in 0..n}

\* strings of the documentation and tests that Alphabet does not spell
ExtraStrings ==
    { <<"2", "5", "5">>, <<"0", "x", "f", "f">>, <<"0", "x", "0", "f", "f">>,
      <<"0", "x", "F", "F">>, <<"1", "2", "a">>, <<"-", "-", "0", "x", "0", "4">>,
      <<"-", "0", "x", "0", "0">>, <<"0", "X", "1">>, <<"9", "0", "0", "7">>,
      <<"-", "1", "2", "3", "4", "5", "6", "7", "8", "9">> }

\* the doubles next to 2^53 - 1 = 9007199254740991, written in decimal
NearMaxSafeDigits ==
    {<<"9", "0", "0", "7", "1", "9", "9", "2", "5", "4", "7", "4", "0", "9">> \o e :
        e \in {<<"8", "9">>, <<"9", "0">>, <<"9", "1">>, <<"9", "2">>}}

SmallNumberDigits == { <<"0">>, <<"1">>, <<"1", "0">>, <<"2", "5", "5">> }

Numbers ==
    {Num(n, s, "int") : n \in BOOLEAN, s \in SmallNumberDigits \cup NearMaxSafeDigits}
    \cup {Num(n, s, "frac") : n \in BOOLEAN, s \in {<<"0">>, <<"1">>}}
    \cup {Num(n, <<>>, "inf") : n \in BOOLEAN}
    \cup {Num(FALSE, <<>>, "nan")}

BigInts == {BigInt(n, s) : n \in BOOLEAN, s \in SmallNumberDigits \cup NearMaxSafeDigits}

ByteSeqs == {Bytes(b) : b \in UNION {[1..k -> ByteValues] : k \in 0..MaxBytes}}

SeedStrings == {Str(s) : s \in StringsUpTo(MaxArithLen) \cup ExtraStrings}

\* the constructor is guarded, so the only instances there are are those
\* BigNumber.from returned
AcceptedSeeds == {w \in SeedStrings \cup Numbers \cup ByteSeqs : from(w).k = "ok"}

Instances == {Inst(from(v).s) : v \in AcceptedSeeds}

Objects ==
    {Obj("plain", <<>>), Obj("toHexStringOther", <<>>)}
    \cup {Obj(q, s) : q \in {"_hex", "toHexString"},
                      s \in {<<>>, <<"0", "x">>, <<"0", "x", "1">>, <<"0", "x", "A">>, <<"1", "0">>,
                             <<"-", "0", "x", "1">>, <<"z">>}}

Values ==
    {Str(s) : s \in StringsUpTo(MaxLen) \cup ExtraStrings}
    \cup Numbers \cup BigInts \cup ByteSeqs \cup Instances \cup Objects

\* the strings from accepts whose instance the engine can decode
IsNumeral(hex) ==
    LET d == IF CharAt(hex, 0) = "-" THEN SubstringFrom(hex, 3) ELSE SubstringFrom(hex, 2)
    IN \A i \in 1..Len(d) : IsHexCharCI(d[i])

Decodable(v) == \E r \in {from(v)} : r.k = "ok" /\ IsNumeral(r.s)

ArithSeeds ==
    {Str(s) : s \in StringsUpTo(MaxArithLen)
                    \cup {<<"-", "0", "x", "a">>, <<"0", "x", "0", "0">>, <<"-", "0", "x", "0">>, <<"-", "0", "0">>,
                          <<"2", "5", "5">>, <<"0", "x", "f", "f">>, <<"0", "x", "F", "F">>, <<"-", "2", "0">>}}

\* the strings and byte sequences from accepts and the engine can decode
ArithAccepted == {v \in ArithSeeds \cup ByteSeqs : Decodable(v)}

\* the receivers of the binary operations: instances the engine can decode
ArithInstances == {Inst(from(v).s) : v \in {w \in ArithSeeds : Decodable(w)}}

\* the arguments of the binary operations
ArithOperands ==
    ArithAccepted
    \cup {Num(n, s, "int") : n \in BOOLEAN, s \in {<<"0">>, <<"1">>}}
    \cup ArithInstances
    \cup {Str(<<"1", "a">>), Str(<<>>), Obj("plain", <<>>)}

(***************************************************************************)
(* The calls a program makes on one value: from, isBigNumberish then from, *)
(* toString on the instance from returned, and toHex applied twice.        *)
(***************************************************************************)
Init ==
    /\ x \in Values
    /\ y = NoValue
    /\ pc = "start"
    /\ res = None
    /\ res0 = None
    /\ engine = <<>>

\* isBigNumberish(x)
IsBigNumberish ==
    /\ pc = "start"
    /\ pc' = "checked"
    /\ res' = Bool(isBigNumberish(x))
    /\ UNCHANGED <<x, y, res0, engine>>

\* BigNumber.from(x), possibly after the predicate was asked
From ==
    /\ pc \in {"start", "checked"}
    /\ pc' = "from"
    /\ res0' = res
    /\ res' = from(x)
    /\ UNCHANGED <<x, y, engine>>

\* BigNumber.from(x).toString()
ToDecimalString ==
    /\ pc = "from"
    /\ res.k = "ok"
    /\ pc' = "toString"
    /\ res0' = res
    /\ res' = toString(Inst(res.s))
    /\ engine' = <<"toString">>
    /\ UNCHANGED <<x, y>>

\* toHex(x) for a string x
ToHex ==
    /\ pc = "start"
    /\ x.t = "str"
    /\ pc' = "toHex"
    /\ res' = toHex(x.s)
    /\ UNCHANGED <<x, y, res0, engine>>

\* toHex applied to what toHex returned
ToHexAgain ==
    /\ pc = "toHex"
    /\ res.k = "text"
    /\ pc' = "toHex2"
    /\ res0' = res
    /\ res' = toHex(res.s)
    /\ UNCHANGED <<x, y, engine>>

Next == IsBigNumberish \/ From \/ ToDecimalString \/ ToHex \/ ToHexAgain

Spec == Init /\ [][Next]_vars

(***************************************************************************)
(* The binary operations x.op(y) on an instance x.                         *)
(***************************************************************************)
InitArith ==
    /\ x \in ArithInstances
    /\ y \in ArithOperands
    /\ pc = "start"
    /\ res = None
    /\ res0 = None
    /\ engine = <<>>

Call(name, r) ==
    /\ pc' = name
    /\ res' = r.out
    /\ engine' = r.calls
    /\ UNCHANGED <<x, y, res0>>

Add == pc = "start" /\ \E r \in {add(x, y)} : Call("add", r)

Sub == pc = "start" /\ \E r \in {sub(x, y)} : Call("sub", r)

Mul == pc = "start" /\ \E r \in {mul(x, y)} : Call("mul", r)

Div == pc = "start" /\ \E r \in {div(x, y)} : Call("div", r)

Eq ==
    /\ pc = "start"
    /\ pc' = "eq"
    /\ res' = eq(x, y)
    /\ engine' = <<"eq">>
    /\ UNCHANGED <<x, y, res0>>

NextArith == Add \/ Sub \/ Mul \/ Div \/ Eq

SpecArith == InitArith /\ [][NextArith]_vars

(***************************************************************************)
(* Reference notions the properties are stated with: the integer an input  *)
(* denotes, and the canonical hex and decimal numerals of an integer.      *)
(***************************************************************************)
IsLowerHexChar(c) == \E i \in 1..16 : HexChars[i] = c

Unsigned(s) == IF CharAt(s, 0) = "-" THEN SubstringFrom(s, 1) ELSE s

\* ^-?[0-9]+$
RefIsDecimal(s) ==
    Len(Unsigned(s)) >= 1 /\ \A i \in 1..Len(Unsigned(s)) : IsDecChar(Unsigned(s)[i])

\* ^-?0x[0-9a-f]+$, case-insensitive
RefIsHex(s) ==
    LET u == Unsigned(s)
    IN /\ Len(u) >= 3
       /\ u[1] = "0"
       /\ u[2] \in {"x", "X"}
       /\ \A i \in 3..Len(u) : IsHexCharCI(u[i])

\* -?0x[0-9a-f]+ in lowercase, an even number of digits, no leading 00
\* pair unless the string is 0x00, and never -0x00
CanonicalHex(h) ==
    LET u == Unsigned(h)
        d == SubstringFrom(u, 2)
    IN /\ Substring(u, 0, 2) = <<"0", "x">>
       /\ Len(d) >= 1
       /\ \A i \in 1..Len(d) : IsLowerHexChar(d[i])
       /\ Len(d) % 2 = 0
       /\ (Substring(d, 0, 2) = <<"0", "0">> => h = <<"0", "x", "0", "0">>)

RECURSIVE RefNat(_, _)
RefNat(d, base) == IF d = <<>> THEN 0 ELSE RefNat(Front(d), base) * base + Last(d)

RefDigits(s) == [i \in 1..Len(s) |-> DigitVal(s[i])]

RefSign(s) == IF CharAt(s, 0) = "-" THEN -1 ELSE 1

\* the integer a hex numeral -?0x... denotes
RefHexValue(s) == RefSign(s) * RefNat(RefDigits(SubstringFrom(Unsigned(s), 2)), 16)

\* the integer a decimal numeral denotes
RefDecValue(s) == RefSign(s) * RefNat(RefDigits(Unsigned(s)), 10)

\* the inputs that denote an integer small enough to be computed with here
RefDenotes(v) ==
    \/ v.t = "str" /\ (RefIsDecimal(v.s) \/ RefIsHex(v.s)) /\ Len(v.s) <= 9
    \/ v.t = "bytes" /\ v.b # <<>>
    \/ v.t = "num" /\ v.q = "int" /\ Len(v.s) <= 9
    \/ v.t = "bn" /\ RefIsHex(v.s) /\ Len(v.s) <= 9

RefValue(v) ==
    IF v.t = "bytes" THEN RefNat(v.b, 256)
    ELSE IF v.t = "num" THEN (IF v.neg THEN -1 ELSE 1) * RefNat(RefDigits(v.s), 10)
    ELSE IF v.t = "str" /\ RefIsDecimal(v.s) THEN RefDecValue(v.s)
    ELSE RefHexValue(v.s)

RECURSIVE RefNumeral(_, _)
RefNumeral(n, base) ==
    IF n < base THEN <<HexChars[n + 1]>>
    ELSE Append(RefNumeral(n \div base, base), HexChars[(n % base) + 1])

RefAbs(n) == IF n < 0 THEN -n ELSE n

\* the decimal numeral of an integer
RefDecimal(n) == (IF n < 0 THEN <<"-">> ELSE <<>>) \o RefNumeral(RefAbs(n), 10)

\* the canonical hex of an integer
RefCanonHex(n) ==
    LET d == RefNumeral(RefAbs(n), 16)
        e == IF Len(d) % 2 = 1 THEN <<"0">> \o d ELSE d
    IN (IF n < 0 THEN <<"-">> ELSE <<>>) \o <<"0", "x">> \o e

\* d without its superfluous leading zeros, the sign kept as written
RECURSIVE StripZeros(_)
StripZeros(d) == IF Len(d) > 1 /\ Head(d) = "0" THEN StripZeros(Tail(d)) ELSE d

RefStripped(s) == (IF CharAt(s, 0) = "-" THEN <<"-">> ELSE <<>>) \o StripZeros(Unsigned(s))

Zero == <<"0", "x", "0", "0">>

ThrewInvalidArgument(r) == r.k = "throw" /\ r.code = "INVALID_ARGUMENT"

ThrewFault(r, fault, operation) ==
    r.k = "throw" /\ r.code = "NUMERIC_FAULT" /\ r.reason = fault /\ r.operation = operation

(***************************************************************************)
(* The properties.                                                         *)
(***************************************************************************)

\* C1: whenever BigNumber.from accepts an input, the _hex of the instance it
\* returns is canonical: lowercase -?0x[0-9a-f]+, an even number of digits,
\* no leading 00 pair unless it is 0x00, never -0x00.
C1_FromIsCanonical ==
    (pc = "from" /\ res.k = "ok") => CanonicalHex(res.s)

\* C2: uniqueness: an input that denotes an integer (decimal string, hex
\* string in any case with any leading zeros, byte sequence, native integer)
\* yields the same hex string as the decimal string of that integer, and
\* every representation of zero yields 0x00.
C2_Uniqueness ==
    (pc = "from" /\ x.t \in {"str", "bytes", "num"} /\ RefDenotes(x)) =>
        /\ res.k = "ok"
        /\ res.s = from(Str(RefDecimal(RefValue(x)))).s
        /\ (RefValue(x) = 0 => res.s = Zero)

\* C3: a string that is, as a whole, neither a decimal numeral nor a hex
\* numeral makes BigNumber.from fail with InvalidArgument.
C3_InvalidStringRejected ==
    (pc = "from" /\ x.t = "str" /\ ~RefIsDecimal(x.s) /\ ~RefIsHex(x.s)) =>
        ThrewInvalidArgument(res)

\* C4: comparison consistency: for instances a and b, a.eq(b) is true
\* exactly when a.toHexString() and b.toHexString() are equal strings.
C4_EqIffSameHex ==
    (pc = "eq" /\ y.t = "bn") =>
        (res.k = "bool" /\ (res.flag <=> toHexString(x) = toHexString(y)))

\* 2^53 - 1 in decimal
RefMaxSafeDecimal ==
    <<"9", "0", "0", "7", "1", "9", "9", "2", "5", "4", "7", "4", "0", "9", "9", "1">>

RECURSIVE RefLexGe(_, _)
RefLexGe(a, b) ==
    IF a = <<>> THEN TRUE
    ELSE IF DigitVal(Head(a)) # DigitVal(Head(b)) THEN DigitVal(Head(a)) > DigitVal(Head(b))
    ELSE RefLexGe(Tail(a), Tail(b))

\* the magnitude of the number is at least 2^53 - 1
RefAtLeastMaxSafe(v) ==
    \/ v.q = "inf"
    \/ v.q \in {"int", "frac"} /\
         (Len(v.s) > 16 \/ (Len(v.s) = 16 /\ RefLexGe(v.s, RefMaxSafeDecimal)))

\* the canonical hex of an integral number below the bound
RefNumberHex(v) ==
    IF Len(v.s) <= 9 THEN RefCanonHex(RefValue(v))
    ELSE (IF v.neg THEN <<"-">> ELSE <<>>)
         \o <<"0", "x", "1", "f", "f", "f", "f", "f", "f", "f", "f", "f", "f", "f", "f">>
         \o (IF Last(v.s) = "9" THEN <<"d">> ELSE <<"e">>)

\* C5 as claimed: for every native number n, BigNumber.from(n) fails with an
\* underflow fault if n has a fractional part, with an overflow fault if
\* n >= 2^53-1 or n <= -(2^53-1), and otherwise returns the canonical hex of n.
C5_NumberOutcome_Claimed ==
    (pc = "from" /\ x.t = "num") =>
        IF x.q = "frac" THEN ThrewFault(res, "underflow", "BigNumber.from")
        ELSE IF RefAtLeastMaxSafe(x) THEN ThrewFault(res, "overflow", "BigNumber.from")
        ELSE res.k = "ok" /\ res.s = RefNumberHex(x)

\* C5 as amended: the same for every native number other than NaN; for NaN
\* BigNumber.from fails with InvalidArgument.
C5_NumberOutcome ==
    (pc = "from" /\ x.t = "num") =>
        IF x.q = "nan" THEN ThrewInvalidArgument(res)
        ELSE IF x.q = "frac" THEN ThrewFault(res, "underflow", "BigNumber.from")
        ELSE IF RefAtLeastMaxSafe(x) THEN ThrewFault(res, "overflow", "BigNumber.from")
        ELSE res.k = "ok" /\ res.s = RefNumberHex(x)

\* 2^53 - 2 was accepted and 2^53 - 1 would not be
C5_Witness ==
    /\ pc = "from"
    /\ x.t = "num"
    /\ x.neg
    /\ x.s = <<"9", "0", "0", "7", "1", "9", "9", "2", "5", "4", "7", "4", "0", "9", "9", "0">>
    /\ res.k = "ok"

InCalls(name) == \E i \in 1..Len(engine) : engine[i] = name

\* C6: a.div(d) for an accepted divisor d fails with the numeric fault
\* "division by zero", operation "div", exactly when d denotes zero, and then
\* the engine's division was not invoked and no instance is returned; for a
\* non-zero d the division is delegated to the engine and an instance is returned.
C6_DivByZero ==
    (pc = "div" /\ RefDenotes(y)) =>
        IF RefValue(y) = 0
        THEN ThrewFault(res, "division by zero", "div") /\ ~InCalls("div")
        ELSE res.k = "ok" /\ InCalls("div")

\* a non-zero instance was divided by the string "-0"
C6_Witness ==
    /\ pc = "div"
    /\ x.s # Zero
    /\ y = Str(<<"-", "0">>)
    /\ ThrewFault(res, "division by zero", "div")

\* C7: toHex is idempotent: when toHex(s) does not fail, toHex(toHex(s)) is
\* toHex(s); and toHex returns a canonical hex string unchanged.
C7_Idempotent ==
    /\ pc = "toHex2" => (res.k = "text" /\ res.s = res0.s)
    /\ (pc = "toHex" /\ CanonicalHex(x.s)) => (res.k = "text" /\ res.s = x.s)

\* toHex changed its input and then left its own output alone
C7_Witness ==
    /\ pc = "toHex2"
    /\ Len(x.s) = 5
    /\ res0.s # x.s
    /\ res0.s = <<"-", "0", "x", "0", "1">>
    /\ res.s = res0.s

\* exact integer arithmetic on the values the two instances denote
RefArith(op, a, b) ==
    IF op = "add" THEN a + b ELSE IF op = "sub" THEN a - b ELSE a * b

\* C8: arithmetic closure: for instances a and b with canonical _hex, a.add(b),
\* a.sub(b) and a.mul(b) return an instance whose _hex is the canonical hex
\* of the exact result (0x00 for zero), and no step changes a._hex or b._hex.
C8_ArithmeticClosure ==
    /\ [](  (pc \in {"add", "sub", "mul"} /\ CanonicalHex(x.s) /\ y.t = "bn" /\ CanonicalHex(y.s)) =>
               /\ res.k = "ok"
               /\ res.s = RefCanonHex(RefArith(pc, RefHexValue(x.s), RefHexValue(y.s)))
               /\ CanonicalHex(res.s)  )
    /\ [][x' = x /\ y' = y]_vars

\* operands of opposite sign added up to zero
C8_Witness ==
    /\ pc = "add"
    /\ x.s = <<"-", "0", "x", "0", "a">>
    /\ y = Inst(<<"0", "x", "0", "a">>)
    /\ res.s = Zero

\* C9 as claimed: for a decimal string d, BigNumber.from(d).toString() is d
\* without its superfluous leading zeros, the sign of d kept as written,
\* also for "-0".
C9_RoundTrip_Claimed ==
    (pc = "toString" /\ x.t = "str" /\ RefIsDecimal(x.s)) =>
        (res.k = "text" /\ res.s = RefStripped(x.s))

\* C9 as amended: the same, except that a d that denotes zero gives "0",
\* without the sign.
C9_RoundTrip ==
    (pc = "toString" /\ x.t = "str" /\ RefIsDecimal(x.s)) =>
        /\ res.k = "text"
        /\ res.s = IF StripZeros(Unsigned(x.s)) = <<"0">> THEN <<"0">> ELSE RefStripped(x.s)

\* a negative decimal string with a leading zero came back without the zero
C9_Witness ==
    /\ pc = "toString"
    /\ x = Str(<<"-", "0", "1", "1", "0">>)
    /\ res.s = <<"-", "1", "1", "0">>

\* C10: whenever isBigNumberish(v) returned true, BigNumber.from(v) returns
\* an instance.
C10_PredicateSound ==
    (pc = "from" /\ res0.k = "bool" /\ res0.flag) => res.k = "ok"

====
